---- MODULE Spec2Model ----
(***************************************************************************)
(* Model of main.py: an HTML file is validated, parsed, split into         *)
(* chapters at h1/h2 direct children of the traversal root, and packaged   *)
(* into an EPUB.                                                           *)
(*                                                                         *)
(* A run is: module import (environment constants), parse_args (which      *)
(* calls validate_html_file), main's open+parse, one loop iteration per    *)
(* child of the traversal root, the last-chapter flush, and the packaging. *)
(***************************************************************************)
EXTENDS Integers, Sequences, FiniteSets, TLC

\* Longest list of direct children of the traversal root that is explored.
MaxLen == 4

\* el.name of a NavigableString (bare text, whitespace) is None.
None == "None"

\* The direct children a traversal root is built from: tags carry a name and
\* a text, bare text nodes carry no name.
Nodes ==
    { [name |-> "h1", text |-> "A"],
      [name |-> "h2", text |-> "B"],
      [name |-> "h2", text |-> "A"],
      [name |-> "h3", text |-> "C"],
      [name |-> "p",  text |-> "x"],
      [name |-> "p",  text |-> "y"],
      [name |-> None, text |-> " "] }

RECURSIVE SeqsUpTo(_)
SeqsUpTo(n) ==
    IF n = 0 THEN { <<>> }
    ELSE LET shorter == SeqsUpTo(n - 1)
         IN  shorter \cup { Append(s, e) : s \in { t \in shorter : Len(t) = n - 1 }, e \in Nodes }

\* The child lists a parsed element may have.
ChildLists == SeqsUpTo(MaxLen)

\* What BeautifulSoup(f, 'lxml') can return: a soup with an <article>
\* somewhere in it, a soup with only a body, or (empty input) a soup with
\* neither, whose soup.body is None.
NoTag == [found |-> FALSE, children |-> <<>>]
Soups ==
    { [article |-> [found |-> TRUE, children |-> c], body |-> [found |-> TRUE, children |-> <<>>]] : c \in ChildLists }
    \cup { [article |-> NoTag, body |-> [found |-> TRUE, children |-> c]] : c \in ChildLists }
    \cup { [article |-> NoTag, body |-> NoTag] }

\* Command-line paths: whether the path exists, and its suffix.
Suffixes == { ".html", ".HTML", ".htm", ".epub" }
Paths == [exists : BOOLEAN, suffix : Suffixes]

VARIABLES
    env_ok,           \* all four BOOK_* environment variables are set
    html_path,        \* the --html_path argument
    pc,               \* position of the run
    err,              \* the exception that ended the run, or None
    opened,           \* the input file has been opened and parsed
    written,          \* the .epub output file has been written
    printed,          \* the confirmation line has been printed
    article,          \* children of the traversal root, in document order
    i,                \* 1-based position of the loop in article.children
    chapters,         \* list of chapters emitted so far
    book_items,       \* items added to the book with book.add_item
    toc,              \* book.toc
    chapter_count,
    current_chapter,
    current_title,
    current_src,      \* history: positions in article of current_chapter's entries
    chapters_src      \* history: for each emitted chapter, the positions of its entries

vars == << env_ok, html_path, pc, err, opened, written, printed, article, i,
           chapters, book_items, toc, chapter_count, current_chapter,
           current_title, current_src, chapters_src >>

splitter == << chapters, book_items, chapter_count, current_chapter,
               current_title, current_src, chapters_src >>

----------------------------------------------------------------------------
\* Pure helpers

\* str(el) of a Tag: its tag-inclusive markup.
StrOf(el) == "<" \o el.name \o ">" \o el.text \o "</" \o el.name \o ">"

\* Variant: the title is taken from str(el) instead of el.get_text().
TitleIsMarkup(el) == StrOf(el)

\* el.get_text(): the text with the tags stripped.
get_text(el) == el.text

\* Variant: every node counts as a tag (the `if getattr(el, 'name', None)`
\* test is dropped).
AnyNode(el) == TRUE

\* `el.name and ...` / getattr(el, 'name', None): the node is a tag.
HasName(el) == el.name # None /\ el.name # ""

\* Variant: only h1 is a chapter boundary.
H1Only(el) == HasName(el) /\ el.name = "h1"

\* Variant: h3 is a chapter boundary too.
H3AlsoHeading(el) == HasName(el) /\ el.name \in { "h1", "h2", "h3" }

\* el.name and el.name in ['h1', 'h2']
IsHeading(el) == HasName(el) /\ el.name \in { "h1", "h2" }

\* Variant: the `if current_chapter:` guards are dropped.
AlwaysTruthy(list) == TRUE

\* Truth value of a Python list: non-empty.
Truthy(list) == list # <<>>

RECURSIVE JoinRepr(_)
JoinRepr(list) ==
    IF list = <<>> THEN ""
    ELSE IF Len(list) = 1 THEN "'" \o list[1] \o "'"
    ELSE "'" \o list[1] \o "', " \o JoinRepr(Tail(list))

\* str(html_content) of a list of strings: the list's repr.
StrOfList(list) == "[" \o JoinRepr(list) \o "]"

\* Variant: file names are numbered from 0.
FileNameFromZero(idx) == "chap_" \o ToString(idx - 1) \o ".xhtml"

\* f'chap_{idx}.xhtml'
FileName(idx) == "chap_" \o ToString(idx) \o ".xhtml"

\* make_chapter: the EpubHtml item; idx and body keep the arguments the item
\* was made from.
make_chapter(title, html_content, idx) ==
    [ title     |-> title,
      file_name |-> FileName(idx),
      content   |-> StrOfList(html_content),
      idx       |-> idx,
      body      |-> html_content ]

\* Variant: the ordinal is not advanced at a flush.
NoIncrement(c) == c

\* chapter_count += 1
NextCount(c) == c + 1

\* Variant: the buffer is not reset at a flush.
NoReset(buffer) == buffer

\* current_chapter = []
ResetChapter(buffer) == <<>>

\* Variant: the chapter is inserted at the front of the list.
Prepend(list, chap) == << chap >> \o list

\* chapters.append(chap)
AppendChapter(list, chap) == Append(list, chap)

\* path.suffix.lower()
Lower(s) ==
    CASE s = ".HTML" -> ".html"
      [] OTHER       -> s

\* Variant: the extension test is dropped.
ExistsOnly(path) ==
    IF ~path.exists THEN "FileNotFoundError" ELSE None

\* validate_html_file: the exception it raises, or None when it returns.
validate_html_file(path) ==
    IF ~path.exists THEN "FileNotFoundError"
    ELSE IF Lower(path.suffix) # ".html" THEN "ValueError"
    ELSE None

\* article = soup.find('article'); if not article: article = soup.body
TraversalRoot(soup) ==
    IF soup.article.found THEN soup.article ELSE soup.body

----------------------------------------------------------------------------
Init ==
    /\ env_ok \in BOOLEAN
    /\ html_path \in Paths
    /\ pc = "import"
    /\ err = None
    /\ opened = FALSE
    /\ written = FALSE
    /\ printed = FALSE
    /\ article = <<>>
    /\ i = 1
    /\ chapters = <<>>
    /\ book_items = <<>>
    /\ toc = <<>>
    /\ chapter_count = 1
    /\ current_chapter = <<>>
    /\ current_title = "Introduction"
    /\ current_src = <<>>
    /\ chapters_src = <<>>

\* Module import: os.environ['BOOK_...'] raises KeyError when one is unset.
LoadConstants ==
    /\ pc = "import"
    /\ IF env_ok
       THEN pc' = "parse_args" /\ err' = err
       ELSE pc' = "error" /\ err' = "KeyError"
    /\ UNCHANGED << env_ok, html_path, opened, written, printed, article, i, toc >>
    /\ UNCHANGED splitter

\* parse_args: the type callback runs validate_html_file on the argument.
ParseArgs ==
    /\ pc = "parse_args"
    /\ LET e == validate_html_file(html_path)
       IN  IF e = None
           THEN pc' = "main" /\ err' = err
           ELSE pc' = "error" /\ err' = e
    /\ UNCHANGED << env_ok, html_path, opened, written, printed, article, i, toc >>
    /\ UNCHANGED splitter

\* main, up to the loop: open and parse the file, select the traversal root,
\* initialise the splitter.  soup.body is None for an input with no markup,
\* and article.children then raises AttributeError.
OpenAndParse ==
    /\ pc = "main"
    /\ IF ~html_path.exists
       THEN \* open() raises
            /\ opened' = FALSE
            /\ article' = <<>>
            /\ pc' = "error"
            /\ err' = "FileNotFoundError"
       ELSE \E soup \in Soups :
              LET root == TraversalRoot(soup)
              IN  /\ opened' = TRUE
                  /\ IF root.found
                     THEN /\ article' = root.children
                          /\ pc' = "loop"
                          /\ err' = err
                     ELSE /\ article' = <<>>
                          /\ pc' = "error"
                          /\ err' = "AttributeError"
    /\ i' = 1
    /\ chapters' = <<>>
    /\ chapter_count' = 1
    /\ current_chapter' = <<>>
    /\ current_title' = "Introduction"
    /\ current_src' = <<>>
    /\ chapters_src' = <<>>
    /\ UNCHANGED << env_ok, html_path, written, printed, book_items, toc >>

\* One iteration of `for el in article.children`.
LoopStep ==
    /\ pc = "loop"
    /\ i <= Len(article)
    /\ LET el    == article[i]
           flush == IsHeading(el) /\ Truthy(current_chapter)
           chap  == make_chapter(current_title, current_chapter, chapter_count)
           \* state after the heading branch
           chapters1 == IF flush THEN AppendChapter(chapters, chap) ELSE chapters
           items1    == IF flush THEN Append(book_items, chap) ELSE book_items
           count1    == IF flush THEN NextCount(chapter_count) ELSE chapter_count
           buffer1   == IF flush THEN ResetChapter(current_chapter) ELSE current_chapter
           src1      == IF flush THEN <<>> ELSE current_src
           csrc1     == IF flush THEN Append(chapters_src, current_src) ELSE chapters_src
           title1    == IF IsHeading(el) THEN get_text(el) ELSE current_title
       IN  /\ chapters' = chapters1
           /\ book_items' = items1
           /\ chapter_count' = count1
           /\ chapters_src' = csrc1
           /\ current_title' = title1
           /\ IF HasName(el)
              THEN /\ current_chapter' = Append(buffer1, StrOf(el))
                   /\ current_src' = Append(src1, i)
              ELSE /\ current_chapter' = buffer1
                   /\ current_src' = src1
    /\ i' = i + 1
    /\ UNCHANGED << env_ok, html_path, pc, err, opened, written, printed, article, toc >>

\* After the loop: `if current_chapter:` add the last chapter.
LastChapter ==
    /\ pc = "loop"
    /\ i > Len(article)
    /\ LET chap == make_chapter(current_title, current_chapter, chapter_count)
       IN  IF Truthy(current_chapter)
           THEN /\ chapters' = AppendChapter(chapters, chap)
                /\ book_items' = Append(book_items, chap)
                /\ chapters_src' = Append(chapters_src, current_src)
           ELSE UNCHANGED << chapters, book_items, chapters_src >>
    /\ pc' = "toc"
    /\ UNCHANGED << env_ok, html_path, err, opened, written, printed, article, i,
                    toc, chapter_count, current_chapter, current_title, current_src >>

\* Table of contents, navigation items, stylesheet, write_epub, print.
WriteEpub ==
    /\ pc = "toc"
    /\ toc' = chapters
    /\ book_items' = book_items \o << [file_name |-> "toc.ncx"],
                                      [file_name |-> "nav.xhtml"],
                                      [file_name |-> "style/nav.css"] >>
    /\ written' = TRUE
    /\ printed' = TRUE
    /\ pc' = "done"
    /\ UNCHANGED << env_ok, html_path, err, opened, article, i, chapters,
                    chapter_count, current_chapter, current_title, current_src,
                    chapters_src >>

Next ==
    \/ LoadConstants
    \/ ParseArgs
    \/ OpenAndParse
    \/ LoopStep
    \/ LastChapter
    \/ WriteEpub

Spec == Init /\ [][Next]_vars

----------------------------------------------------------------------------
\* Vocabulary of the properties, stated on the document alone.

\* The node is an h1 or h2 element.
SpecHeading(el) == el.name \in { "h1", "h2" }

\* The node is an element (it has a tag name).
SpecTagged(el) == el.name # None

\* The splitting has finished: the loop and the last-chapter flush are over.
Finished == pc \in { "toc", "done" }

\* The splitting is under way or has finished.
Splitting == pc \in { "loop", "toc", "done" }

Positions == 1..Len(article)

HeadingPositions == { k \in Positions : SpecHeading(article[k]) }

TaggedPositions == { k \in Positions : SpecTagged(article[k]) }

\* The positions of the tagged nodes of a child list, in document order.
RECURSIVE TaggedFrom(_, _)
TaggedFrom(list, k) ==
    IF k > Len(list) THEN <<>>
    ELSE IF SpecTagged(list[k]) THEN << k >> \o TaggedFrom(list, k + 1)
    ELSE TaggedFrom(list, k + 1)

\* The markup of the tagged nodes of a child list, in document order.
RECURSIVE SerializedFrom(_, _)
SerializedFrom(list, k) ==
    IF k > Len(list) THEN <<>>
    ELSE IF SpecTagged(list[k]) THEN << StrOf(list[k]) >> \o SerializedFrom(list, k + 1)
    ELSE SerializedFrom(list, k + 1)

\* Concatenation of a list of lists.
RECURSIVE Flatten(_)
Flatten(lists) ==
    IF lists = <<>> THEN <<>> ELSE Head(lists) \o Flatten(Tail(lists))

Bodies == [ c \in 1..Len(chapters) |-> chapters[c].body ]

\* Positions j < k hold headings with no tagged node between them.
ConsecutiveHeadings(j, k) ==
    /\ j \in Positions /\ k \in Positions /\ j < k
    /\ SpecHeading(article[j]) /\ SpecHeading(article[k])
    /\ \A m \in (j + 1)..(k - 1) : ~SpecTagged(article[m])

\* The heading at position h is followed by a tagged non-heading node before
\* the next heading or the end of the document.
FollowedByContent(h) ==
    \E k \in Positions :
        /\ k > h
        /\ SpecTagged(article[k]) /\ ~SpecHeading(article[k])
        /\ \A m \in (h + 1)..(k - 1) : ~SpecTagged(article[m])

\* There is a tagged node before the first heading.
ContentBeforeFirstHeading ==
    \E k \in Positions :
        SpecTagged(article[k]) /\ \A m \in 1..k : ~SpecHeading(article[m])

\* Each emitted chapter's body is the markup of the nodes it was filled from.
BodiesMatchSources ==
    /\ Len(chapters_src) = Len(chapters)
    /\ \A c \in 1..Len(chapters) :
          /\ Len(chapters[c].body) = Len(chapters_src[c])
          /\ \A m \in 1..Len(chapters_src[c]) :
                /\ chapters_src[c][m] \in Positions
                /\ chapters[c].body[m] = StrOf(article[chapters_src[c][m]])

----------------------------------------------------------------------------
\* C1: the ordinals of the emitted chapters are 1, 2, ..., K in emission
\* order, so the file names chap_<idx>.xhtml are chap_1 .. chap_K with none
\* duplicated or skipped, the chapter flushed after the loop included.
C1_OrdinalsSequential ==
    /\ \A c \in 1..Len(chapters) :
          /\ chapters[c].idx = c
          /\ chapters[c].file_name = "chap_" \o ToString(c) \o ".xhtml"
    /\ \A c, d \in 1..Len(chapters) :
          c # d => chapters[c].file_name # chapters[d].file_name

\* A run that emitted three chapters, the last one after the loop.
C1_Witness ==
    /\ pc = "done"
    /\ Len(chapters) = 3
    /\ chapters[3].idx = 3

\* C2 as stated: a root with no h1/h2 child yields exactly one chapter,
\* titled "Introduction", whose body is the markup of all tagged children in
\* order, also when the root has no tagged child at all.
C2_OneChapterAlways ==
    (Finished /\ HeadingPositions = {}) =>
        /\ Len(chapters) = 1
        /\ chapters[1].title = "Introduction"
        /\ chapters[1].body = SerializedFrom(article, 1)

\* C2 amended: a root with no h1/h2 child and at least one tagged child yields
\* exactly one chapter, titled "Introduction", whose body is the markup of
\* all tagged children in order; a root with no tagged child yields no
\* chapter.
C2_OneChapterIfTagged ==
    (Finished /\ HeadingPositions = {}) =>
        IF TaggedPositions # {}
        THEN /\ Len(chapters) = 1
             /\ chapters[1].title = "Introduction"
             /\ chapters[1].body = SerializedFrom(article, 1)
        ELSE chapters = <<>>

\* A finished run on a heading-free root with tagged and bare text children.
C2_Witness ==
    /\ pc = "done"
    /\ HeadingPositions = {}
    /\ Cardinality(TaggedPositions) >= 2
    /\ Cardinality(TaggedPositions) < Len(article)
    /\ Len(chapters) = 1

\* C3: with N headings, each followed by a tagged non-heading node before the
\* next heading or the end, N+1 chapters are produced when a tagged node
\* precedes the first heading and N otherwise.
C3_ChapterCount ==
    (Finished /\ \A h \in HeadingPositions : FollowedByContent(h)) =>
        Len(chapters) = Cardinality(HeadingPositions)
                        + (IF ContentBeforeFirstHeading THEN 1 ELSE 0)

\* A finished run with content, then a heading and its content.
C3_Witness ==
    /\ pc = "done"
    /\ Cardinality(HeadingPositions) = 1
    /\ \A h \in HeadingPositions : FollowedByContent(h)
    /\ ContentBeforeFirstHeading
    /\ Len(chapters) = 2

\* C4 as stated: when two headings are consecutive with no tagged node
\* between them, reaching the second one flushes nothing and the first
\* heading never titles an emitted chapter: no emitted chapter starts at the
\* first heading.
C4_FirstHeadingDropped ==
    \A j, k \in Positions :
        ConsecutiveHeadings(j, k) =>
            \A c \in 1..Len(chapters_src) :
                chapters_src[c] # <<>> => Head(chapters_src[c]) # j

\* C4 amended: when two headings are consecutive with no tagged node between
\* them, no chapter with an empty body is emitted, but reaching the second
\* heading does flush: it emits a chapter titled with the first heading's
\* text whose body is exactly the first heading; the chapter that starts at
\* the second heading is titled with the second heading's text.
C4_HeadingOnlyChapter ==
    /\ \A c \in 1..Len(chapters) : chapters[c].body # <<>>
    /\ \A j, k \in Positions :
          (Splitting /\ ConsecutiveHeadings(j, k) /\ i > k) =>
              /\ \E c \in 1..Len(chapters) :
                    /\ chapters_src[c] = << j >>
                    /\ chapters[c].title = article[j].text
                    /\ chapters[c].body = << StrOf(article[j]) >>
                    /\ c < Len(chapters) =>
                          /\ Head(chapters_src[c + 1]) = k
                          /\ chapters[c + 1].title = article[k].text
              /\ current_src # <<>> /\ Head(current_src) = k =>
                    current_title = article[k].text

\* A finished run over two consecutive headings separated by bare text only.
C4_Witness ==
    /\ pc = "done"
    /\ \E j, k \in Positions : ConsecutiveHeadings(j, k) /\ k > j + 1
    /\ Len(chapters) >= 2

\* No entry of the buffer or of an emitted chapter comes from a bare text
\* node.
NoTextEntries ==
    /\ \A m \in 1..Len(current_src) :
          current_src[m] \in Positions /\ SpecTagged(article[current_src[m]])
    /\ Len(current_chapter) = Len(current_src)
    /\ BodiesMatchSources
    /\ \A c \in 1..Len(chapters_src) : \A m \in 1..Len(chapters_src[c]) :
          SpecTagged(article[chapters_src[c][m]])

\* The loop iteration on a bare text node changes nothing of the splitter.
TextStepIsNoOp ==
    (pc = "loop" /\ i \in Positions /\ ~SpecTagged(article[i])) =>
        /\ current_chapter' = current_chapter
        /\ chapters' = chapters
        /\ book_items' = book_items
        /\ current_title' = current_title
        /\ chapter_count' = chapter_count

\* C5: no bare text node is ever appended to current_chapter, no emitted
\* chapter body holds an entry that comes from one, and the iteration on a
\* text node flushes nothing and leaves current_title and the ordinal alone.
C5_TextNodesDropped == []NoTextEntries /\ [][TextStepIsNoOp]_vars

\* The loop has passed a bare text node that lies between two tagged nodes
\* and went on to emit chapters.
C5_Witness ==
    /\ pc = "done"
    /\ \E k \in Positions :
          /\ ~SpecTagged(article[k])
          /\ k > 1 /\ k < Len(article)
          /\ SpecTagged(article[k - 1]) /\ SpecTagged(article[k + 1])
    /\ Len(chapters) >= 1

\* The children of <article><h1>A</h1><p>x</p><h2>B</h2><p>y</p></article>.
SampleDocument ==
    << [name |-> "h1", text |-> "A"], [name |-> "p", text |-> "x"],
       [name |-> "h2", text |-> "B"], [name |-> "p", text |-> "y"] >>

\* C6: the sample document yields exactly two chapters: "A" (ordinal 1,
\* h1 A then p x) and "B" (ordinal 2, h2 B then p y), and nothing else.
C6_SampleDocument ==
    (Finished /\ article = SampleDocument) =>
        /\ Len(chapters) = 2
        /\ chapters[1].title = "A"
        /\ chapters[1].idx = 1
        /\ chapters[1].file_name = "chap_1.xhtml"
        /\ chapters[1].body = << "<h1>A</h1>", "<p>x</p>" >>
        /\ chapters[2].title = "B"
        /\ chapters[2].idx = 2
        /\ chapters[2].file_name = "chap_2.xhtml"
        /\ chapters[2].body = << "<h2>B</h2>", "<p>y</p>" >>

\* The run on the sample document has written its book.
C6_Witness ==
    /\ pc = "done"
    /\ written
    /\ article = SampleDocument
    /\ Len(toc) = 2

\* C7: every emitted chapter has a non-empty body, the chapters list is in
\* document order (every node of an earlier chapter precedes every node of a
\* later one), and book.toc is that list.
C7_DocumentOrder ==
    /\ \A c \in 1..Len(chapters) : chapters[c].body # <<>>
    /\ BodiesMatchSources
    /\ \A c, d \in 1..Len(chapters) :
          c < d =>
              \A m \in 1..Len(chapters_src[c]) : \A n \in 1..Len(chapters_src[d]) :
                  chapters_src[c][m] < chapters_src[d][n]
    /\ pc = "done" => toc = chapters

\* A written book with three chapters, one of them of several nodes.
C7_Witness ==
    /\ pc = "done"
    /\ Len(toc) = 3
    /\ \E c \in 1..Len(chapters) : Len(chapters[c].body) >= 2

\* The path is one validate_html_file lets through.
SpecValidPath == html_path.exists /\ html_path.suffix \in { ".html", ".HTML" }

\* C8: main (open, parse, split, write, print) runs only for an existing
\* path whose lower-cased suffix is ".html"; once the arguments are parsed, a
\* missing path has failed with a not-found error and an existing path with
\* another suffix with an extension error, and in both cases nothing was
\* opened, parsed, written or printed.
C8_ValidationGates ==
    /\ (pc \in { "main", "loop", "toc", "done" } \/ opened \/ written \/ printed
        \/ article # <<>> \/ chapters # <<>>) => SpecValidPath
    /\ (env_ok /\ pc \notin { "import", "parse_args" } /\ ~html_path.exists) =>
          /\ pc = "error" /\ err = "FileNotFoundError"
          /\ ~opened /\ ~written /\ ~printed
    /\ (env_ok /\ pc \notin { "import", "parse_args" } /\ html_path.exists
        /\ html_path.suffix \notin { ".html", ".HTML" }) =>
          /\ pc = "error" /\ err = "ValueError"
          /\ ~opened /\ ~written /\ ~printed

\* An existing .htm path has been rejected by the validation.
C8_Witness ==
    /\ pc = "error"
    /\ err = "ValueError"
    /\ html_path.exists
    /\ html_path.suffix = ".htm"
    /\ ~opened

\* C9: when the splitting has finished, the bodies of the emitted chapters,
\* concatenated in emission order, are exactly the markup of the tagged
\* children in document order: each tagged child is in one body once.
C9_NothingLostOrDuplicated ==
    Finished =>
        /\ Flatten(Bodies) = SerializedFrom(article, 1)
        /\ Flatten(chapters_src) = TaggedFrom(article, 1)

\* A finished run with a flush inside the loop and one after it.
C9_Witness ==
    /\ pc = "done"
    /\ Len(chapters) >= 2
    /\ Len(Flatten(Bodies)) >= 3
    /\ Len(Flatten(Bodies)) < Len(article)

\* C10: in every emitted chapter a heading occurs only as the first element
\* of the body; a chapter that starts with a heading is titled with that
\* heading's text; a chapter that does not can only be the first one,
\* ordinal 1, titled "Introduction".
C10_HeadingsLeadChapters ==
    /\ BodiesMatchSources
    /\ \A c \in 1..Len(chapters) :
          /\ chapters[c].body # <<>>
          /\ \A m \in 2..Len(chapters_src[c]) :
                ~SpecHeading(article[chapters_src[c][m]])
          /\ IF SpecHeading(article[chapters_src[c][1]])
             THEN chapters[c].title = article[chapters_src[c][1]].text
             ELSE /\ c = 1
                  /\ chapters[c].idx = 1
                  /\ chapters[c].title = "Introduction"

\* A finished run with an introduction and two heading-led chapters.
C10_Witness ==
    /\ pc = "done"
    /\ Len(chapters) = 3
    /\ ~SpecHeading(article[chapters_src[1][1]])
    /\ SpecHeading(article[chapters_src[2][1]])
    /\ chapters[1].title = "Introduction"

====
